---- MODULE Spec2Model ----
(***************************************************************************)
(* The event-driven coordination engine of First Contact E.I.S.:           *)
(*   - the Execution Service  (backend/app/services/executor.py),          *)
(*   - the Orchestration Engine (backend/app/services/orchestrator.py),    *)
(*   - the Event Listener     (backend/app/services/event_listener.py),    *)
(*   - the approval routes    (backend/app/routes/orchestration.py).       *)
(*                                                                         *)
(* Conventions.                                                            *)
(*   A Python string that the code splits on "_" is the sequence of its    *)
(*   "_"-separated tokens: "cancel_appointment" is <<"cancel",             *)
(*   "appointment">>, and str.split("_")[0] is its first token.            *)
(*   Python's None, for a value that is otherwise a record, is the empty   *)
(*   sequence and the value v is <<v>>.                                    *)
(*   Scores and confidences are integers: the float times 100, rounded to  *)
(*   the nearest hundredth (0.4 * 0.8 + 0.2 + 0.2 + 0.2 is 92). A client's *)
(*   urgency_score is held in half points (urgency 8 is 16, 7.5 is 15).    *)
(*   An asyncio coroutine runs atomically between two awaits that suspend. *)
(*   A value the code computes once and then reads several times is bound  *)
(*   as the element of a singleton set: \E v \in {e} : ..., or             *)
(*   CHOOSE r \in {f(v) : v \in {e}} : TRUE for the value f(v).            *)
(***************************************************************************)
EXTENDS Integers, Sequences, FiniteSets, TLC

VARIABLES
    executor,               \* the ExecutionService instances, each with the execute_plan call it runs
    recommendations_store,  \* routes/orchestration.py: recommendation_id -> stored recommendation
    background_tasks,       \* the execute_and_update tasks that approve handed to BackgroundTasks
    approve_calls,          \* history: the recommendation ids approve was called on and found stored
    last_recommendation,    \* what the last handle_event returned (None: <<>>)
    clock,                  \* datetime.now(), read when an id is formatted
    event_listener,         \* the long-lived EventListenerService, with its engine (<<>>: none)
    intake_log              \* history of the intakes made on event_listener (<<>>: none)

listenerVars == <<event_listener, intake_log>>
vars == <<executor, recommendations_store, background_tasks, approve_calls,
          last_recommendation, clock, event_listener, intake_log>>
flowVars == <<recommendations_store, background_tasks, approve_calls,
              last_recommendation, clock, event_listener, intake_log>>

---------------------------------------------------------------------------
\* Bounds of the model.

\* The longest arbitrary plan handed to execute_plan (the planner's own plan has 6 actions).
MaxPlanLen == 2
\* The number of execute_plan calls made on one ExecutionService instance.
MaxExecutions == 2
\* The number of recommendations the trigger-event route stores.
MaxRecommendations == 1
\* The number of approve requests that find their recommendation.
MaxApprovals == 2

---------------------------------------------------------------------------
\* Strings.

cancel_appointment == <<"cancel", "appointment">>
book_appointment == <<"book", "appointment">>
update_transport == <<"update", "transport">>
send_sms == <<"send", "sms">>
notify_provider == <<"notify", "provider">>
update_case == <<"update", "case">>
\* An action type the executor has no adapter for (orchestrator.py names it in Action's comment).
send_notification == <<"send", "notification">>

\* s.split("_"): the list of the tokens of s, each a string of one token.
Split(s) == [k \in 1..Len(s) |-> <<s[k]>>]

\* f"{prefix}_{timestamp}"; a timestamp holds no "_" and is one token.
FormatId(prefix, timestamp) == prefix \o <<ToString(timestamp)>>

Range(s) == {s[k] : k \in DOMAIN s}

SeqsUpTo(S, n) == UNION {[1..k -> S] : k \in 0..n}

---------------------------------------------------------------------------
\* Data structures.

\* ActionStatus
PENDING == "pending"
RUNNING == "running"
COMPLETED == "completed"
FAILED == "failed"
ROLLED_BACK == "rolled_back"

\* orchestrator.Action; parameters is the set of the keys of the dict, depends_on None is <<>>.
\* is_action is FALSE for a list element that is not an Action object (it has no attributes).
Action(action_type, target_system, parameters, depends_on) ==
    [action_type |-> action_type, target_system |-> target_system,
     parameters |-> parameters, depends_on |-> depends_on, is_action |-> TRUE]

NotAnAction ==
    [action_type |-> <<>>, target_system |-> "", parameters |-> {},
     depends_on |-> <<>>, is_action |-> FALSE]

\* executor.ActionResult (started_at, completed_at and result_data are left out);
\* error_message None is <<>>.
ActionResult(action_id, status, error_message, retry_count) ==
    [action_id |-> action_id, status |-> status,
     error_message |-> error_message, retry_count |-> retry_count]

\* executor.ExecutionResult (total_duration_seconds is left out).
ExecutionResult(plan_id, status, actions_completed, actions_failed, action_results, rollback_performed) ==
    [plan_id |-> plan_id, status |-> status, actions_completed |-> actions_completed,
     actions_failed |-> actions_failed, action_results |-> action_results,
     rollback_performed |-> rollback_performed]

---------------------------------------------------------------------------
\* Orchestration Engine: the decision.

\* orchestrator.Event; metadata holds appointment_time ("None" when the key is
\* missing) and provider_id.
Event(event_type, client_id, appointment_time) ==
    [event_type |-> event_type, client_id |-> client_id,
     appointment_time |-> appointment_time, provider_id |-> "P"]

OrchestrableEvents ==
    {"appointment_cancelled", "housing_available", "documents_complete",
     "deadline_approaching", "client_update", "provider_capacity_change"}

should_orchestrate(event) == event.event_type \in OrchestrableEvents

is_ambiguous(event, context) == FALSE

is_transport_compatible(client, provider_id, context) == TRUE

has_conflicts(client, time, context) == FALSE

Min(a, b) == IF a < b THEN a ELSE b

\* The score times 100; (urgency / 10) * 0.4 is 4 per point, 2 per half point.
score_appointment_candidate(client, appointment_time, provider_id, context) ==
    LET urgency == client.urgency_score * 2
        documents == IF client.documents_complete THEN 20 ELSE 0
        transport == IF is_transport_compatible(client, provider_id, context) THEN 20 ELSE 0
        conflicts == IF ~has_conflicts(client, appointment_time, context) THEN 20 ELSE 0
    IN Min(urgency + documents + transport + conflicts, 100)

\* The for loop over the candidates, from candidate k on; best is
\* [best_candidate (None: <<>>), best_score].
\* The loop over the candidates keeping the last of the best candidates.
RECURSIVE ScanCandidates_last_wins(_, _, _, _)
ScanCandidates_last_wins(event, context, k, best) ==
    IF k > Len(context.related_clients) THEN best
    ELSE LET client == context.related_clients[k]
             score == score_appointment_candidate(client, event.appointment_time,
                                                  event.provider_id, context)
         IN ScanCandidates_last_wins(event, context, k + 1,
                IF score >= best.best_score /\ score > 70
                THEN [best_candidate |-> <<client>>, best_score |-> score]
                ELSE best)

RECURSIVE ScanCandidates(_, _, _, _)
ScanCandidates(event, context, k, best) ==
    IF k > Len(context.related_clients) THEN best
    ELSE LET client == context.related_clients[k]
             score == score_appointment_candidate(client, event.appointment_time,
                                                  event.provider_id, context)
         IN ScanCandidates(event, context, k + 1,
                IF score > best.best_score /\ score > 70
                THEN [best_candidate |-> <<client>>, best_score |-> score]
                ELSE best)

\* The decision (None: <<>>) of the appointment_cancelled rule.
handle_appointment_cancellation(event, context) ==
    LET best == ScanCandidates(event, context, 1,
                               [best_candidate |-> <<>>, best_score |-> 0])
    IN IF best.best_candidate # <<>>
       THEN << [decision_type |-> "bump_appointment",
                original_client_id |-> event.client_id,
                new_client_id |-> best.best_candidate[1].id,
                appointment_time |-> event.appointment_time,
                provider_id |-> event.provider_id,
                confidence |-> best.best_score] >>
       ELSE <<>>

\* The other rules are not implemented and return None.
apply_business_rules(event, context) ==
    IF event.event_type = "appointment_cancelled"
    THEN handle_appointment_cancellation(event, context)
    ELSE <<>>

\* _use_ai_decision: _parse_ai_response returns None.
use_ai_decision(event, context) == <<>>

\* OrchestrationEngine.__init__; ai is whether an ai_service was given.
NewOrchestrationEngine(ai) ==
    [ai |-> ai, decisions_made |-> 0, ai_decisions |-> 0, rule_decisions |-> 0]

\* _make_decision: the engine with its counters updated, and the decision.
make_decision(o, event, context) ==
    LET decision == apply_business_rules(event, context) IN
    IF decision # <<>>
    THEN [orchestrator |-> [o EXCEPT !.rule_decisions = @ + 1], decision |-> decision]
    ELSE IF o.ai /\ is_ambiguous(event, context) /\ use_ai_decision(event, context) # <<>>
    THEN [orchestrator |-> [o EXCEPT !.ai_decisions = @ + 1],
          decision |-> use_ai_decision(event, context)]
    ELSE [orchestrator |-> o, decision |-> <<>>]

---------------------------------------------------------------------------
\* Orchestration Engine: plan construction and recommendation formatting.

\* A plan construction that books before it cancels.
PlanActions_books_first(decision) ==
    << Action(book_appointment, "provider_scheduling",
              {"provider_id", "client_id", "appointment_time"}, <<>>),
       Action(cancel_appointment, "provider_scheduling",
              {"provider_id", "client_id", "appointment_time"}, <<>>),
       Action(update_transport, "transportation",
              {"client_id", "pickup_time", "destination"}, <<>>),
       Action(send_sms, "notifications", {"client_id", "message"}, <<>>),
       Action(notify_provider, "provider_api", {"provider_id", "message"}, <<>>),
       Action(update_case, "case_management",
              {"client_id", "update_type", "details"}, <<>>) >>

\* A plan construction in which book_appointment waits for the case update.
PlanActions_book_awaits_case(decision) ==
    << Action(cancel_appointment, "provider_scheduling",
              {"provider_id", "client_id", "appointment_time"}, <<>>),
       Action(book_appointment, "provider_scheduling",
              {"provider_id", "client_id", "appointment_time"}, <<update_case>>),
       Action(update_transport, "transportation",
              {"client_id", "pickup_time", "destination"}, <<>>),
       Action(send_sms, "notifications", {"client_id", "message"}, <<>>),
       Action(notify_provider, "provider_api", {"provider_id", "message"}, <<>>),
       Action(update_case, "case_management",
              {"client_id", "update_type", "details"}, <<>>) >>

\* The list of actions _create_execution_plan builds for a decision.
PlanActions(decision) ==
    IF decision.decision_type = "bump_appointment"
    THEN << Action(cancel_appointment, "provider_scheduling",
                   {"provider_id", "client_id", "appointment_time"}, <<>>),
            Action(book_appointment, "provider_scheduling",
                   {"provider_id", "client_id", "appointment_time"}, <<cancel_appointment>>),
            Action(update_transport, "transportation",
                   {"client_id", "pickup_time", "destination"}, <<>>),
            Action(send_sms, "notifications", {"client_id", "message"}, <<>>),
            Action(notify_provider, "provider_api", {"provider_id", "message"}, <<>>),
            Action(update_case, "case_management",
                   {"client_id", "update_type", "details"}, <<>>) >>
    ELSE <<>>

\* ExecutionPlan, with affected_systems and the duration computed as _create_execution_plan does.
MakePlan(plan_id, actions) ==
    [plan_id |-> plan_id,
     actions |-> actions,
     estimated_duration_seconds |-> Len(actions) * 2,
     affected_systems |-> {actions[k].target_system : k \in DOMAIN actions}]

\* TRUE when _create_execution_plan raises: decision["appointment_time"] - timedelta(...)
\* is a TypeError when the event carried no appointment_time.
create_execution_plan_raises(decision) ==
    /\ decision.decision_type = "bump_appointment"
    /\ decision.appointment_time = "None"

create_execution_plan(decision, now) ==
    MakePlan(FormatId(<<"plan">>, now), PlanActions(decision))

\* A formatting that marks the recommendation as needing no approval.
format_recommendation_self_executing(decision, execution_plan, now) ==
    [recommendation_id |-> FormatId(<<"rec">>, now),
     summary |-> decision.new_client_id,
     execution_plan |-> execution_plan,
     confidence_score |-> decision.confidence,
     requires_approval |-> FALSE]

\* Recommendation (reasoning and impact are left out); summary is the client
\* that _create_summary names in its sentence.
format_recommendation(decision, execution_plan, now) ==
    [recommendation_id |-> FormatId(<<"rec">>, now),
     summary |-> decision.new_client_id,
     execution_plan |-> execution_plan,
     confidence_score |-> decision.confidence,
     requires_approval |-> TRUE]

\* TRUE when _apply_business_rules raises: event.metadata.get(...) is an
\* AttributeError when the event carries no metadata at all.
apply_business_rules_raises(event) ==
    /\ event.event_type = "appointment_cancelled"
    /\ event.appointment_time = "NoMetadata"

\* The try block of handle_event: the engine with its counters updated, the
\* recommendation returned (None: <<>>), and whether an exception left the block.
\* context.query_raises tells that a context query raised.
handle_event_try(o, event, context, now) ==
    IF ~should_orchestrate(event)
    THEN [orchestrator |-> o, recommendation |-> <<>>, raised |-> FALSE]
    ELSE IF context.query_raises \/ apply_business_rules_raises(event)
    THEN [orchestrator |-> o, recommendation |-> <<>>, raised |-> TRUE]
    ELSE LET made == make_decision(o, event, context) IN
         IF made.decision = <<>>
         THEN [orchestrator |-> made.orchestrator, recommendation |-> <<>>,
               raised |-> FALSE]
         ELSE IF create_execution_plan_raises(made.decision[1])
         THEN [orchestrator |-> made.orchestrator, recommendation |-> <<>>,
               raised |-> TRUE]
         ELSE [orchestrator |-> [made.orchestrator EXCEPT !.decisions_made = @ + 1],
               recommendation |->
                   << format_recommendation(
                          made.decision[1],
                          create_execution_plan(made.decision[1], now), now) >>,
               raised |-> FALSE]

\* handle_event's except branch letting the exception through.
handle_event_except_reraises(attempted) == attempted

\* handle_event's except branch: the error is logged and None is returned.
handle_event_except(attempted) ==
    [attempted EXCEPT !.recommendation = <<>>, !.raised = FALSE]

\* handle_event: what it returns, and whether it raised to its caller.
handle_event(o, event, context, now) ==
    CHOOSE returned \in
        {IF attempted.raised THEN handle_event_except(attempted) ELSE attempted :
             attempted \in {handle_event_try(o, event, context, now)}} : TRUE

---------------------------------------------------------------------------
\* Event Listener.

\* _initialize_event_configs: the five configurations, all enabled.
EventConfig(event_type, source, webhook_path) ==
    [event_type |-> event_type, source |-> source, webhook_path |-> webhook_path,
     enabled |-> TRUE]

event_configs ==
    << EventConfig("appointment_cancelled", "firestore", "None"),
       EventConfig("appointment_no_show", "firestore", "None"),
       EventConfig("housing_available", "webhook", "/webhooks/housing-update"),
       EventConfig("documents_complete", "firestore", "None"),
       EventConfig("deadline_approaching", "scheduled", "None") >>

\* EventListenerService.__init__ around the engine o; webhook_handlers maps a path
\* to an event type, scheduled_jobs counts the tasks asyncio.create_task started.
NewEventListenerService(o, demo_mode) ==
    [orchestrator |-> o, demo_mode |-> demo_mode,
     events_detected |-> 0, events_processed |-> 0, events_ignored |-> 0,
     listeners |-> <<>>, webhook_handlers |-> <<>>, scheduled_jobs |-> 0]

\* What start() does for one configuration.
StartSource(l, config) ==
    IF ~config.enabled THEN l
    ELSE IF config.source = "webhook"
    THEN [l EXCEPT !.webhook_handlers = (config.webhook_path :> config.event_type) @@ @]
    ELSE IF config.source = "scheduled" /\ ~l.demo_mode
    THEN [l EXCEPT !.scheduled_jobs = @ + 1]
    ELSE l

\* start(): the for loop over event_configs, from configuration k on.
RECURSIVE StartFrom(_, _)
StartFrom(l, k) ==
    IF k > Len(event_configs) THEN l ELSE StartFrom(StartSource(l, event_configs[k]), k + 1)

start(l) == StartFrom(l, 1)

\* stop(): every entry of listeners is unsubscribed and the list is cleared.
stop(l) == [l EXCEPT !.listeners = <<>>]

\* _trigger_orchestration counting every event it handed over as processed.
trigger_orchestration_counts_processed(l, event, context, now) ==
    LET handled == handle_event(l.orchestrator, event, context, now) IN
    [listener |-> [l EXCEPT !.orchestrator = handled.orchestrator,
                            !.events_processed = @ + 1],
     handled |-> TRUE,
     handle_event_raised |-> handled.raised,
     recommendation |-> handled.recommendation]

\* _trigger_orchestration: handle_event on the listener's engine, then the
\* counters; _store_recommendation stores nothing (the Firestore write is not
\* implemented). The listener afterwards, and what handle_event returned.
trigger_orchestration(l, event, context, now) ==
    CHOOSE after \in
        {[listener |-> IF handled.raised
                       THEN [l EXCEPT !.orchestrator = handled.orchestrator]
                       ELSE IF handled.recommendation # <<>>
                       THEN [l EXCEPT !.orchestrator = handled.orchestrator,
                                      !.events_processed = @ + 1]
                       ELSE [l EXCEPT !.orchestrator = handled.orchestrator,
                                      !.events_ignored = @ + 1],
          handled |-> TRUE,
          handle_event_raised |-> handled.raised,
          recommendation |-> handled.recommendation] :
             handled \in {handle_event(l.orchestrator, event, context, now)}} : TRUE

\* handle_webhook handing the webhook of any path to the engine.
handle_webhook_forwards_unknown(l, webhook_path, payload, context, now) ==
    trigger_orchestration([l EXCEPT !.events_detected = @ + 1],
                          Event("housing_available", payload.client_id,
                                payload.appointment_time),
                          context, now)

\* handle_webhook(webhook_path, payload); payload carries client_id and
\* appointment_time. handled tells whether handle_event was called.
handle_webhook(l, webhook_path, payload, context, now) ==
    LET detected == [l EXCEPT !.events_detected = @ + 1] IN
    IF webhook_path \notin DOMAIN l.webhook_handlers
    THEN [listener |-> [detected EXCEPT !.events_ignored = @ + 1],
          handled |-> FALSE, handle_event_raised |-> FALSE, recommendation |-> <<>>]
    ELSE trigger_orchestration(
             detected,
             Event(l.webhook_handlers[webhook_path], payload.client_id,
                   payload.appointment_time),
             context, now)

\* trigger_manual_event(event_type, client_id, provider_id, metadata).
trigger_manual_event(l, event_type, client_id, metadata, context, now) ==
    trigger_orchestration(l, Event(event_type, client_id, metadata.appointment_time),
                          context, now)

---------------------------------------------------------------------------
\* Execution Service.

max_retries == 3

KnownActionTypes ==
    {cancel_appointment, book_appointment, update_transport, send_sms,
     notify_provider, update_case}

\* What a live integration may raise.
AdapterErrors == {"AdapterError"}

\* str(e) of the exception an attempt raised. Each attempt raises an exception of
\* its own: the message tells the attempts apart.
ErrorMessage(error, attempt) == <<error, ToString(attempt)>>

\* The outcomes of one attempt of _execute_action's try block: "ok" (the adapter
\* returned) or the exception raised. An unknown action type raises ValueError. A demo
\* adapter sleeps and returns, but _send_sms and _notify_provider read
\* params['message'] and raise KeyError without it. A live adapter is a call to an
\* external system: it returns or raises.
AdapterOutcomes(action, demo_mode) ==
    IF action.action_type \notin KnownActionTypes THEN {"ValueError"}
    ELSE IF demo_mode
         THEN IF action.action_type \in {send_sms, notify_provider}
                 /\ "message" \notin action.parameters
              THEN {"KeyError"}
              ELSE {"ok"}
         ELSE {"ok"} \cup AdapterErrors

dependencies_met(action, completed_results) ==
    IF action.depends_on = <<>> THEN TRUE
    ELSE LET completed_types ==
                 {Split(completed_results[k].action_id)[1] :
                      k \in {j \in DOMAIN completed_results :
                                 completed_results[j].status = COMPLETED}}
         IN \A d \in DOMAIN action.depends_on : action.depends_on[d] \in completed_types

\* is_critical_action with book_appointment forgotten in the list.
is_critical_action_without_book(action) ==
    action.action_type \in {update_case, cancel_appointment}

\* is_critical_action answering True for every action.
is_critical_action_always(action) == TRUE

\* is_critical_action with send_sms added to the list.
is_critical_action_with_sms(action) ==
    action.action_type \in {book_appointment, update_case, cancel_appointment, send_sms}

is_critical_action(action) ==
    action.action_type \in {book_appointment, update_case, cancel_appointment}

\* _rollback: what it returns, and the action results as it leaves them.
rollback(action_results) ==
    [performed |-> TRUE, action_results |-> action_results]

\* The plan status execute_plan computes once the loop is over.
PlanStatus(completed, failed) ==
    IF failed = 0 THEN "success"
    ELSE IF completed > 0 THEN "partial_success"
    ELSE "failed"

EmptyPlan == MakePlan(<<"plan">>, <<>>)

\* ExecutionService.__init__, with no execute_plan call running.
\* Fields of the call: pc, execution_plan, i (the position of the for loop),
\* action_id, attempt, action_results, completed, failed, rollback_performed and
\* returned (<<>> until the call returns its ExecutionResult).
\* History of the call, kept for the properties: outcomes (the outcome of each
\* attempt of the current action), sleeps (the retry delays waited for the current
\* action), executed (the positions of the actions handed to _execute_action),
\* calls (the execute_plan calls made on the instance), invocations and waits (the
\* adapter invocations and the retry delays of the call, over all its actions).
NewExecutionService(demo_mode) ==
    [demo_mode |-> demo_mode,
     executions_count |-> 0, successful_executions |-> 0, failed_executions |-> 0,
     pc |-> "idle", execution_plan |-> EmptyPlan, i |-> 1,
     action_id |-> <<>>, attempt |-> 0, action_results |-> <<>>,
     completed |-> 0, failed |-> 0, rollback_performed |-> FALSE, returned |-> <<>>,
     outcomes |-> <<>>, sleeps |-> 0, executed |-> <<>>, calls |-> 0,
     invocations |-> 0, waits |-> 0]

\* execute_plan is entered: its locals are initialised.
CallExecutePlan(e, execution_plan) ==
    [e EXCEPT !.pc = "loop", !.execution_plan = execution_plan, !.i = 1,
              !.action_id = <<>>, !.attempt = 0, !.action_results = <<>>,
              !.completed = 0, !.failed = 0, !.rollback_performed = FALSE,
              !.returned = <<>>,
              !.outcomes = <<>>, !.sleeps = 0, !.executed = <<>>, !.calls = @ + 1,
              !.invocations = 0, !.waits = 0]

CurrentAction(e) == e.execution_plan.actions[e.i]

LoopHasNext(e) == e.pc = "loop" /\ e.i <= Len(e.execution_plan.actions)

\* _execute_action is entered for the current action: the action_id is formatted
\* and the first attempt begins.
EnterExecuteAction(e) ==
    [e EXCEPT !.pc = "attempt",
              !.action_id = FormatId(CurrentAction(e).action_type, e.i),
              !.attempt = 0,
              !.outcomes = <<>>, !.sleeps = 0, !.executed = Append(@, e.i)]

\* RecordResult counting the failed attempts of an action instead of the action.
RecordResult_counts_attempts(e, result) ==
    LET results == Append(e.action_results, result) IN
    IF result.status = COMPLETED
    THEN [e EXCEPT !.pc = "loop", !.i = @ + 1, !.action_results = results,
                   !.completed = @ + 1]
    ELSE IF is_critical_action(CurrentAction(e))
    THEN [e EXCEPT !.pc = "finish", !.action_results = results,
                   !.failed = @ + result.retry_count, !.rollback_performed = TRUE]
    ELSE [e EXCEPT !.pc = "loop", !.i = @ + 1, !.action_results = results,
                   !.failed = @ + result.retry_count]

\* RecordResult putting the newest result first in action_results.
RecordResult_prepends(e, result) ==
    LET results == <<result>> \o e.action_results IN
    IF result.status = COMPLETED
    THEN [e EXCEPT !.pc = "loop", !.i = @ + 1, !.action_results = results,
                   !.completed = @ + 1]
    ELSE IF is_critical_action(CurrentAction(e))
    THEN [e EXCEPT !.pc = "finish", !.action_results = results,
                   !.failed = @ + 1, !.rollback_performed = TRUE]
    ELSE [e EXCEPT !.pc = "loop", !.i = @ + 1, !.action_results = results,
                   !.failed = @ + 1]

\* execute_plan's handling of the ActionResult that _execute_action returned.
RecordResult(e, result) ==
    LET results == Append(e.action_results, result) IN
    IF result.status = COMPLETED
    THEN [e EXCEPT !.pc = "loop", !.i = @ + 1, !.action_results = results,
                   !.completed = @ + 1]
    ELSE IF result.status = FAILED
    THEN IF is_critical_action(CurrentAction(e))
         THEN LET rb == rollback(results) IN
              [e EXCEPT !.pc = "finish", !.action_results = rb.action_results,
                        !.failed = @ + 1, !.rollback_performed = rb.performed]
         ELSE [e EXCEPT !.pc = "loop", !.i = @ + 1, !.action_results = results,
                        !.failed = @ + 1]
    ELSE [e EXCEPT !.pc = "loop", !.i = @ + 1, !.action_results = results]

\* The attempt's adapter call returned: _execute_action returns COMPLETED.
AttemptReturned(e) ==
    RecordResult([e EXCEPT !.outcomes = Append(@, <<"ok">>),
                           !.invocations = @ + 1],
                 ActionResult(e.action_id, COMPLETED, <<>>, e.attempt))

\* AttemptRaised giving up one attempt early (attempt < max_retries - 2).
AttemptRaised_gives_up_early(e, error) ==
    IF e.attempt < max_retries - 2
    THEN [e EXCEPT !.pc = "sleep",
                   !.outcomes = Append(@, ErrorMessage(error, e.attempt)),
                   !.invocations = @ + 1]
    ELSE RecordResult([e EXCEPT !.outcomes = Append(@, ErrorMessage(error, e.attempt)),
                                !.invocations = @ + 1],
                      ActionResult(e.action_id, FAILED,
                                   ErrorMessage(error, e.attempt), e.attempt + 1))

\* The attempt raised error: sleep before the next attempt, or FAILED after the last.
AttemptRaised(e, error) ==
    IF e.attempt < max_retries - 1
    THEN [e EXCEPT !.pc = "sleep",
                   !.outcomes = Append(@, ErrorMessage(error, e.attempt)),
                   !.invocations = @ + 1]
    ELSE RecordResult([e EXCEPT !.outcomes = Append(@, ErrorMessage(error, e.attempt)),
                                !.invocations = @ + 1],
                      ActionResult(e.action_id, FAILED,
                                   ErrorMessage(error, e.attempt), e.attempt + 1))

\* The retry delay leading back to the same attempt.
AfterRetryDelay_same_attempt(e) ==
    [e EXCEPT !.pc = "attempt", !.sleeps = @ + 1, !.waits = @ + 1]

\* asyncio.sleep(retry_delay_seconds) is over: the for loop of attempts goes on.
AfterRetryDelay(e) ==
    [e EXCEPT !.pc = "attempt", !.attempt = @ + 1, !.sleeps = @ + 1, !.waits = @ + 1]

\* The loop is over (exhausted, or left by break): status, counters, return.
FinishPlan(e) ==
    LET status == PlanStatus(e.completed, e.failed) IN
    [e EXCEPT !.pc = "returned",
              !.successful_executions = IF status = "success" THEN @ + 1 ELSE @,
              !.failed_executions = IF status = "failed" THEN @ + 1 ELSE @,
              !.executions_count = @ + 1,
              !.returned = << ExecutionResult(e.execution_plan.plan_id, status,
                                              e.completed, e.failed, e.action_results,
                                              e.rollback_performed) >>]

\* ExceptPlan with the exception raised again to the caller.
ExceptPlan_reraises(e) == [e EXCEPT !.pc = "raised"]

\* execute_plan's except branch: an exception escaped the loop.
ExceptPlan(e) ==
    [e EXCEPT !.pc = "returned",
              !.returned = << ExecutionResult(e.execution_plan.plan_id, "failed",
                                              e.completed, e.failed + 1,
                                              e.action_results, FALSE) >>]

\* One pass through the head of the for loop, for the current action: an element
\* that is no Action raises (reading its depends_on), an action whose dependencies
\* are not met is skipped, any other is handed to _execute_action.
LoopStep(e) ==
    IF ~CurrentAction(e).is_action THEN ExceptPlan(e)
    ELSE IF ~dependencies_met(CurrentAction(e), e.action_results)
    THEN [e EXCEPT !.i = @ + 1]
    ELSE EnterExecuteAction(e)

\* The for loop run up to its next await (the adapter call of the next action that
\* is executed), or to its end.
RECURSIVE RunLoop(_)
RunLoop(e) == IF LoopHasNext(e) THEN RunLoop(LoopStep(e)) ELSE e

\* The for loop is over: exhausted, or left by break.
LoopOver(e) == e.pc = "finish" \/ (e.pc = "loop" /\ ~LoopHasNext(e))

---------------------------------------------------------------------------
\* The plans handed to execute_plan.

DemoDecision ==
    [decision_type |-> "bump_appointment", original_client_id |-> "A",
     new_client_id |-> "B", appointment_time |-> "09:00", provider_id |-> "P",
     confidence |-> 92]

BumpPlan == create_execution_plan(DemoDecision, 0)

\* The same six actions with no depends_on: a plan in which book_appointment is
\* executed whatever became of cancel_appointment (the plan of Scenario C).
IndependentBumpPlan ==
    MakePlan(<<"plan">>, [PlanActions(DemoDecision) EXCEPT ![2].depends_on = <<>>])

ActionPool ==
    { Action(cancel_appointment, "provider_scheduling", {"appointment_time"}, <<>>),
      Action(book_appointment, "provider_scheduling", {"appointment_time"},
             <<cancel_appointment>>),
      Action(book_appointment, "provider_scheduling", {"appointment_time"}, <<>>),
      Action(send_sms, "notifications", {"client_id", "message"}, <<>>),
      Action(send_sms, "notifications", {"client_id"}, <<>>),
      Action(send_notification, "notifications", {"message"}, <<>>),
      NotAnAction }

Plans ==
    {BumpPlan, IndependentBumpPlan} \cup {MakePlan(<<"plan">>, actions) : actions \in SeqsUpTo(ActionPool, MaxPlanLen)}

---------------------------------------------------------------------------
\* Actions of the Execution Service; t is an ExecutionService instance.

\* execute_plan(plan, approved_by) is called on an instance that runs no call.
ExecutePlan(t) ==
    /\ executor[t].pc \in {"idle", "returned"}
    /\ executor[t].calls < MaxExecutions
    /\ \E plan \in Plans :
           executor' = [executor EXCEPT ![t] = CallExecutePlan(@, plan)]
    /\ UNCHANGED flowVars

\* for action in actions: the dependencies are not met, continue.
SkipAction(t) ==
    /\ LoopHasNext(executor[t])
    /\ CurrentAction(executor[t]).is_action
    /\ ~dependencies_met(CurrentAction(executor[t]), executor[t].action_results)
    /\ executor' = [executor EXCEPT ![t] = LoopStep(@)]
    /\ UNCHANGED flowVars

\* for action in actions: the dependencies are met, _execute_action is awaited.
StartAction(t) ==
    /\ LoopHasNext(executor[t])
    /\ CurrentAction(executor[t]).is_action
    /\ dependencies_met(CurrentAction(executor[t]), executor[t].action_results)
    /\ executor' = [executor EXCEPT ![t] = LoopStep(@)]
    /\ UNCHANGED flowVars

\* for action in actions: reading action.depends_on raises, the except branch returns.
LoopRaises(t) ==
    /\ LoopHasNext(executor[t])
    /\ ~CurrentAction(executor[t]).is_action
    /\ executor' = [executor EXCEPT ![t] = LoopStep(@)]
    /\ UNCHANGED flowVars

\* An attempt of the current action ends with the adapter returning.
AttemptOk(t) ==
    /\ executor[t].pc = "attempt"
    /\ "ok" \in AdapterOutcomes(CurrentAction(executor[t]), executor[t].demo_mode)
    /\ executor' = [executor EXCEPT ![t] = AttemptReturned(@)]
    /\ UNCHANGED flowVars

\* An attempt of the current action ends with an exception.
AttemptFails(t) ==
    /\ executor[t].pc = "attempt"
    /\ \E error \in AdapterOutcomes(CurrentAction(executor[t]), executor[t].demo_mode) \ {"ok"} :
           executor' = [executor EXCEPT ![t] = AttemptRaised(@, error)]
    /\ UNCHANGED flowVars

\* The retry delay is over.
RetryDelay(t) ==
    /\ executor[t].pc = "sleep"
    /\ executor' = [executor EXCEPT ![t] = AfterRetryDelay(@)]
    /\ UNCHANGED flowVars

\* The loop is over: execute_plan returns its ExecutionResult.
ReturnResult(t) ==
    /\ LoopOver(executor[t])
    /\ executor' = [executor EXCEPT ![t] = FinishPlan(@)]
    /\ UNCHANGED flowVars

---------------------------------------------------------------------------
\* SpecExec: one ExecutionService, demo or live, executing arbitrary plans.

InitExec ==
    /\ \E demo_mode \in BOOLEAN : executor = <<NewExecutionService(demo_mode)>>
    /\ recommendations_store = <<>>
    /\ background_tasks = <<>>
    /\ approve_calls = {}
    /\ last_recommendation = <<>>
    /\ clock = 1
    /\ event_listener = <<>>
    /\ intake_log = <<>>

NextExec ==
    \/ \E t \in DOMAIN executor : ExecutePlan(t)
    \/ \E t \in DOMAIN executor : SkipAction(t)
    \/ \E t \in DOMAIN executor : StartAction(t)
    \/ \E t \in DOMAIN executor : LoopRaises(t)
    \/ \E t \in DOMAIN executor : AttemptOk(t)
    \/ \E t \in DOMAIN executor : AttemptFails(t)
    \/ \E t \in DOMAIN executor : RetryDelay(t)
    \/ \E t \in DOMAIN executor : ReturnResult(t)

SpecExec == InitExec /\ [][NextExec]_vars

---------------------------------------------------------------------------
\* SpecCall: one execute_plan call on a new ExecutionService, demo or live, with
\* adapter calls and retry delays that end.

\* execute_plan(plan, approved_by) is called on a new instance.
ExecutePlanOnce(t) ==
    /\ executor[t].pc = "idle"
    /\ \E plan \in Plans :
           executor' = [executor EXCEPT ![t] = CallExecutePlan(@, plan)]
    /\ UNCHANGED flowVars

\* A step of the execute_plan call on instance t.
CallStep(t) ==
    \/ SkipAction(t)
    \/ StartAction(t)
    \/ LoopRaises(t)
    \/ AttemptOk(t)
    \/ AttemptFails(t)
    \/ RetryDelay(t)
    \/ ReturnResult(t)

NextCall ==
    \/ \E t \in DOMAIN executor : ExecutePlanOnce(t)
    \/ \E t \in DOMAIN executor : CallStep(t)

SpecCall == InitExec /\ [][NextCall]_vars /\ WF_vars(CallStep(1))

---------------------------------------------------------------------------
\* The approval routes (routes/orchestration.py).

EventTypes == {"appointment_cancelled", "housing_available", "appointment_no_show"}

Events == {Event(event_type, "A", appointment_time) :
               event_type \in EventTypes, appointment_time \in {"NoMetadata", "None", "09:00"}}

\* The candidates of Scenario A: A scores 0.52 and B scores 0.92.
CandidateA == [id |-> "A", urgency_score |-> 6, documents_complete |-> FALSE]
CandidateB == [id |-> "B", urgency_score |-> 16, documents_complete |-> TRUE]

\* What the context queries (external collaborators) may answer.
Contexts ==
    {[query_raises |-> TRUE, related_clients |-> <<>>]}
    \cup {[query_raises |-> FALSE, related_clients |-> related_clients] :
              related_clients \in {<<>>, <<CandidateA>>, <<CandidateA, CandidateB>>}}

\* A recommendation id that is not in the store.
UnknownRecommendationId == <<"rec", "0">>

\* The dict trigger_event stores: the response fields and the execution plan.
StoredRecommendation(recommendation) ==
    [recommendation_id |-> recommendation.recommendation_id,
     confidence_score |-> recommendation.confidence_score,
     actions_count |-> Len(recommendation.execution_plan.actions),
     status |-> "pending_approval",
     execution_plan |-> recommendation.execution_plan]

\* execute_and_update leaving the stored status as it is.
StatusOfResult_keeps_executing(result) == "executing"

\* The status execute_and_update stores for an ExecutionResult.
StatusOfResult(result) ==
    IF result.status = "success" THEN "completed"
    ELSE IF result.status = "failed" THEN "failed"
    ELSE "partial_success"

\* get_executor: every approve request gets an instance of its own, in demo mode.
get_executor == NewExecutionService(TRUE)

\* get_orchestrator: every request gets an engine of its own, without ai_service.
get_orchestrator == NewOrchestrationEngine(FALSE)

\* get_event_listener: every request gets a listener of its own, in demo mode.
get_event_listener == NewEventListenerService(get_orchestrator, TRUE)

WebhookPaths == {"/webhooks/housing-update", "/webhooks/unknown"}

Payloads == {[client_id |-> "A", appointment_time |-> appointment_time] :
                 appointment_time \in {"None", "09:00"}}

\* handle_webhook is called on a listener, started or not.
HandleWebhook ==
    /\ \E started \in BOOLEAN, webhook_path \in WebhookPaths, payload \in Payloads,
          context \in Contexts :
           \E after \in {handle_webhook(IF started THEN start(get_event_listener)
                                                    ELSE get_event_listener,
                                         webhook_path, payload, context, clock)} :
               last_recommendation' =
                   IF after.handled THEN after.recommendation ELSE last_recommendation
    /\ UNCHANGED <<executor, recommendations_store, background_tasks, approve_calls, clock>>
    /\ UNCHANGED listenerVars

\* trigger_manual_event is called on a listener (it reads nothing start() sets).
TriggerManualEvent ==
    /\ \E event_type \in EventTypes, metadata \in Payloads, context \in Contexts :
           \E after \in {trigger_manual_event(get_event_listener, event_type, "A",
                                               metadata, context, clock)} :
               last_recommendation' = after.recommendation
    /\ UNCHANGED <<executor, recommendations_store, background_tasks, approve_calls, clock>>
    /\ UNCHANGED listenerVars

\* POST /trigger-event: handle_event on the request's engine; a recommendation is
\* stored as pending_approval, no recommendation is an HTTP error.
TriggerEventWith(event, context) ==
    \E handled \in {handle_event(get_orchestrator, event, context, clock)} :
    IF handled.raised \/ handled.recommendation = <<>>
    THEN /\ last_recommendation' = <<>>
         /\ UNCHANGED <<recommendations_store, clock>>
    ELSE /\ last_recommendation' = handled.recommendation
         /\ recommendations_store' =
                (handled.recommendation[1].recommendation_id
                     :> StoredRecommendation(handled.recommendation[1]))
                @@ recommendations_store
         /\ clock' = clock + 1

TriggerEvent ==
    /\ Cardinality(DOMAIN recommendations_store) < MaxRecommendations
    /\ \E event \in Events, context \in Contexts : TriggerEventWith(event, context)
    /\ UNCHANGED <<executor, background_tasks, approve_calls>>
    /\ UNCHANGED listenerVars

\* POST /recommendations/{id}/approve: 404 for an id that is not stored; otherwise
\* the status becomes executing and execute_and_update is added to the request's
\* background tasks.
ApproveRecommendation ==
    /\ Len(background_tasks) < MaxApprovals
    /\ \E recommendation_id \in DOMAIN recommendations_store \cup {UnknownRecommendationId} :
           IF recommendation_id \notin DOMAIN recommendations_store
           THEN UNCHANGED vars
           ELSE /\ recommendations_store' =
                       [recommendations_store EXCEPT ![recommendation_id].status = "executing"]
                /\ background_tasks' =
                       Append(background_tasks,
                              [recommendation_id |-> recommendation_id,
                               execution_plan |->
                                   recommendations_store[recommendation_id].execution_plan,
                               pc |-> "scheduled"])
                /\ executor' = Append(executor, get_executor)
                /\ approve_calls' = approve_calls \cup {recommendation_id}
                /\ UNCHANGED <<last_recommendation, clock, event_listener, intake_log>>

\* POST /recommendations/{id}/reject: 404 for an id that is not stored; otherwise
\* the status becomes rejected.
RejectRecommendation ==
    \E recommendation_id \in DOMAIN recommendations_store \cup {UnknownRecommendationId} :
        IF recommendation_id \notin DOMAIN recommendations_store
        THEN UNCHANGED vars
        ELSE /\ recommendations_store' =
                    [recommendations_store EXCEPT ![recommendation_id].status = "rejected"]
             /\ UNCHANGED <<executor, background_tasks, approve_calls,
                            last_recommendation, clock, event_listener, intake_log>>

\* The background task t starts: execute_and_update awaits execute_plan, which
\* runs up to the await of its first adapter call.
ExecuteAndUpdate(t) ==
    /\ background_tasks[t].pc = "scheduled"
    /\ executor' = [executor EXCEPT
                        ![t] = RunLoop(CallExecutePlan(@, background_tasks[t].execution_plan))]
    /\ background_tasks' = [background_tasks EXCEPT ![t].pc = "running"]
    /\ UNCHANGED <<recommendations_store, approve_calls, last_recommendation, clock>>
    /\ UNCHANGED listenerVars

\* The adapter call that task t awaits returns, and execute_plan runs up to the
\* await of its next adapter call.
AdapterReturns(t) ==
    /\ background_tasks[t].pc = "running"
    /\ executor[t].pc = "attempt"
    /\ "ok" \in AdapterOutcomes(CurrentAction(executor[t]), executor[t].demo_mode)
    /\ ~LoopOver(RunLoop(AttemptReturned(executor[t])))
    /\ executor' = [executor EXCEPT ![t] = RunLoop(AttemptReturned(@))]
    /\ UNCHANGED flowVars

\* The adapter call that task t awaits returns and the loop ends: execute_plan
\* returns to execute_and_update, which stores the status. Nothing awaits between
\* the return of the last adapter call and the assignment.
ExecuteAndUpdateReturns(t) ==
    /\ background_tasks[t].pc = "running"
    /\ executor[t].pc = "attempt"
    /\ "ok" \in AdapterOutcomes(CurrentAction(executor[t]), executor[t].demo_mode)
    /\ LoopOver(RunLoop(AttemptReturned(executor[t])))
    /\ LET e == FinishPlan(RunLoop(AttemptReturned(executor[t]))) IN
       /\ executor' = [executor EXCEPT ![t] = e]
       /\ recommendations_store' =
              [recommendations_store EXCEPT
                  ![background_tasks[t].recommendation_id].status =
                      StatusOfResult(e.returned[1])]
    /\ background_tasks' = [background_tasks EXCEPT ![t].pc = "done"]
    /\ UNCHANGED <<approve_calls, last_recommendation, clock>>
    /\ UNCHANGED listenerVars

---------------------------------------------------------------------------
\* Spec: the routes, with the background executions they start. The executors
\* are in demo mode and run the planner's plans: no attempt raises there.

Init ==
    /\ executor = <<>>
    /\ recommendations_store = <<>>
    /\ background_tasks = <<>>
    /\ approve_calls = {}
    /\ last_recommendation = <<>>
    /\ clock = 1
    /\ event_listener = <<>>
    /\ intake_log = <<>>

Next ==
    \/ TriggerEvent
    \/ ApproveRecommendation
    \/ RejectRecommendation
    \/ HandleWebhook
    \/ TriggerManualEvent
    \/ \E t \in DOMAIN background_tasks : ExecuteAndUpdate(t)
    \/ \E t \in DOMAIN background_tasks : AdapterReturns(t)
    \/ \E t \in DOMAIN background_tasks : ExecuteAndUpdateReturns(t)

Spec == Init /\ [][Next]_vars

---------------------------------------------------------------------------
\* SpecLive: Spec with the background tasks scheduled fairly: a task that was
\* added is started, and the adapter call it awaits returns.

\* A step of background task t.
TaskStep(t) ==
    /\ t \in DOMAIN background_tasks
    /\ \/ ExecuteAndUpdate(t)
       \/ AdapterReturns(t)
       \/ ExecuteAndUpdateReturns(t)

\* The routes that store, approve and reject, and the background tasks.
NextLive ==
    \/ TriggerEvent
    \/ ApproveRecommendation
    \/ RejectRecommendation
    \/ \E t \in DOMAIN background_tasks : TaskStep(t)

SpecLive ==
    Init /\ [][NextLive]_vars /\ \A t \in 1..MaxApprovals : WF_vars(TaskStep(t))

---------------------------------------------------------------------------
\* SpecIntake: one long-lived EventListenerService with its engine, started and
\* stopped, taking webhooks and manual events, next to the trigger-event route.
\* intake_log is [intakes, active, last]: the intakes made, whether start()
\* was called with no stop() since, and the last
\* intake (<<>> before the first): what came in, the listener and the store
\* before it, whether the listener was active, whether handle_event was called,
\* whether it raised, and the recommendation it returned.

\* The intakes made in a behaviour.
MaxIntakes == 2
\* The scheduled jobs that the start() calls create on the listener.
MaxStarts == 2

\* C and G score 0.84 both; F, with urgency 7.5, scores the threshold 0.7.
CandidateC == [id |-> "C", urgency_score |-> 12, documents_complete |-> TRUE]
CandidateG == [id |-> "G", urgency_score |-> 12, documents_complete |-> TRUE]
CandidateF == [id |-> "F", urgency_score |-> 15, documents_complete |-> FALSE]

\* Candidates whose urgency_score lies outside 0..10.
CandidateD == [id |-> "D", urgency_score |-> 30, documents_complete |-> FALSE]
CandidateE == [id |-> "E", urgency_score |-> -40, documents_complete |-> FALSE]

\* More answers of the context queries, for the manual events: the candidates
\* in other orders, and candidates with an urgency_score out of range.
IntakeContexts ==
    Contexts
    \cup {[query_raises |-> FALSE, related_clients |-> related_clients] :
              related_clients \in {<<CandidateC, CandidateB>>, <<CandidateB, CandidateC>>,
                                   <<CandidateE, CandidateD>>,
                                   <<CandidateF, CandidateC, CandidateG>>}}

Intake(kind, webhook_path, event_type, appointment_time, context, after) ==
    [kind |-> kind, webhook_path |-> webhook_path, event_type |-> event_type,
     appointment_time |-> appointment_time, context |-> context,
     before |-> event_listener, store_before |-> recommendations_store,
     active |-> intake_log.active,
     handled |-> after.handled, handle_event_raised |-> after.handle_event_raised,
     recommendation |-> after.recommendation]

\* start() is called on the listener.
StartListener ==
    /\ event_listener.scheduled_jobs < MaxStarts
    /\ event_listener' = start(event_listener)
    /\ intake_log' = [intake_log EXCEPT !.active = TRUE]
    /\ UNCHANGED <<executor, recommendations_store, background_tasks, approve_calls,
                   last_recommendation, clock>>

\* stop() is called on the listener.
StopListener ==
    /\ event_listener' = stop(event_listener)
    /\ intake_log' = [intake_log EXCEPT !.active = FALSE]
    /\ UNCHANGED <<executor, recommendations_store, background_tasks, approve_calls,
                   last_recommendation, clock>>

\* handle_webhook(webhook_path, payload) is called on the listener.
WebhookArrives ==
    /\ intake_log.intakes < MaxIntakes
    /\ \E webhook_path \in WebhookPaths, payload \in Payloads, context \in Contexts :
           \E after \in {handle_webhook(event_listener, webhook_path, payload, context,
                                         clock)} :
           LET event_type == IF webhook_path \in DOMAIN event_listener.webhook_handlers
                             THEN event_listener.webhook_handlers[webhook_path]
                             ELSE "None"
           IN /\ event_listener' = after.listener
              /\ intake_log' =
                     [intake_log EXCEPT
                         !.intakes = @ + 1,
                         !.last = << Intake("handle_webhook", webhook_path, event_type,
                                            payload.appointment_time, context, after) >>]
              /\ last_recommendation' =
                     IF after.handled THEN after.recommendation ELSE last_recommendation
    /\ UNCHANGED <<executor, recommendations_store, background_tasks, approve_calls, clock>>

\* trigger_manual_event(event_type, client_id, provider_id, metadata) is called
\* on the listener.
ManualEvent ==
    /\ intake_log.intakes < MaxIntakes
    /\ \E event_type \in EventTypes, metadata \in Payloads, context \in IntakeContexts :
           \E after \in {trigger_manual_event(event_listener, event_type, "A", metadata,
                                               context, clock)} :
              /\ event_listener' = after.listener
              /\ intake_log' =
                     [intake_log EXCEPT
                         !.intakes = @ + 1,
                         !.last = << Intake("trigger_manual_event", "None", event_type,
                                            metadata.appointment_time, context, after) >>]
              /\ last_recommendation' = after.recommendation
    /\ UNCHANGED <<executor, recommendations_store, background_tasks, approve_calls, clock>>

\* POST /trigger-event, on the engine of the request.
TriggerEventRoute ==
    /\ intake_log.intakes < MaxIntakes
    /\ Cardinality(DOMAIN recommendations_store) < MaxRecommendations
    /\ \E event \in Events, context \in Contexts :
           \E handled \in {handle_event(get_orchestrator, event, context, clock)} :
           /\ TriggerEventWith(event, context)
           /\ intake_log' =
                  [intake_log EXCEPT
                      !.intakes = @ + 1,
                      !.last = << Intake("trigger_event", "None", event.event_type,
                                         event.appointment_time, context,
                                         [handled |-> TRUE,
                                          handle_event_raised |-> handled.raised,
                                          recommendation |-> handled.recommendation]) >>]
    /\ UNCHANGED <<executor, background_tasks, approve_calls, event_listener>>

InitIntake ==
    /\ executor = <<>>
    /\ recommendations_store = <<>>
    /\ background_tasks = <<>>
    /\ approve_calls = {}
    /\ last_recommendation = <<>>
    /\ clock = 1
    /\ \E ai \in BOOLEAN, demo_mode \in BOOLEAN :
           event_listener = NewEventListenerService(NewOrchestrationEngine(ai), demo_mode)
    /\ intake_log = [intakes |-> 0, active |-> FALSE, last |-> <<>>]

NextIntake ==
    \/ StartListener
    \/ StopListener
    \/ WebhookArrives
    \/ ManualEvent
    \/ TriggerEventRoute

SpecIntake == InitIntake /\ [][NextIntake]_vars

---------------------------------------------------------------------------
\* Properties of the approval workflow (checked under Spec).

AllowedTransitions ==
    {<<"pending_approval", "executing">>, <<"pending_approval", "rejected">>,
     <<"executing", "completed">>, <<"executing", "partial_success">>,
     <<"executing", "failed">>}

\* execute_plan has been started on the executor of background task t.
Started(t) == executor[t].calls > 0

\* C1: the status of a stored recommendation only changes along
\* pending_approval -> executing, executing -> completed | partial_success |
\* failed, or pending_approval -> rejected; so rejected is terminal and the
\* final statuses are reached from executing only.
C1_StatusStateMachine ==
    [][\A id \in DOMAIN recommendations_store :
           recommendations_store'[id].status # recommendations_store[id].status
               => <<recommendations_store[id].status, recommendations_store'[id].status>>
                      \in AllowedTransitions]_vars

\* C2: execute_plan has been started for a plan only if approve was called before
\* on the stored recommendation that carries this plan; an execution starts only
\* in a step of the background task of an approve call, never in a step of
\* handle_event, handle_webhook or trigger_manual_event; and every recommendation
\* produced has requires_approval = true.
C2_ExecutedOnlyAfterApproval ==
    /\ [](/\ \A t \in DOMAIN executor :
                Started(t) =>
                    /\ t \in DOMAIN background_tasks
                    /\ background_tasks[t].recommendation_id \in approve_calls
                    /\ background_tasks[t].recommendation_id \in DOMAIN recommendations_store
                    /\ executor[t].execution_plan =
                           recommendations_store[background_tasks[t].recommendation_id]
                               .execution_plan
           /\ (last_recommendation # <<>> => last_recommendation[1].requires_approval))
    /\ [][\A t \in DOMAIN executor' :
               (Started(t))' /\ (t \notin DOMAIN executor \/ ~Started(t))
                   => /\ t \in DOMAIN background_tasks
                      /\ background_tasks[t].pc = "scheduled"
                      /\ background_tasks'[t].pc = "running"
                      /\ background_tasks[t].recommendation_id \in approve_calls
                      /\ last_recommendation' = last_recommendation]_vars

\* An execution runs for an approved recommendation while an intake has just
\* produced a recommendation.
C2_Witness ==
    /\ last_recommendation # <<>>
    /\ last_recommendation[1].requires_approval
    /\ \E t \in DOMAIN executor :
           /\ Started(t)
           /\ background_tasks[t].recommendation_id \in approve_calls
           /\ last_recommendation[1].recommendation_id # background_tasks[t].recommendation_id

\* C3: execute_plan is started at most once for the plan of a recommendation,
\* however often approve is called on it.
C3_PlanConsumedOnce ==
    \A t1, t2 \in DOMAIN executor :
        /\ Started(t1)
        /\ Started(t2)
        /\ background_tasks[t1].recommendation_id = background_tasks[t2].recommendation_id
        => t1 = t2

---------------------------------------------------------------------------
\* Properties of the Execution Service (checked under SpecExec).

CriticalTypes == {book_appointment, update_case, cancel_appointment}

Returned(t) == executor[t].pc = "returned" /\ executor[t].returned # <<>>

\* The action of the plan that action_results[k] is the result of.
ActionOfResult(e, k) == e.execution_plan.actions[e.executed[k]]

IsError(outcome) == outcome # <<"ok">>

\* The current action has ended and its result is the last of action_results.
ActionEnded(e) ==
    /\ e.executed # <<>>
    /\ Len(e.action_results) = Len(e.executed)
    /\ e.pc \in {"loop", "finish", "returned"}

\* C4 (Scenario B): the planner's six-action plan, run with demo adapters, returns
\* status success with 6 actions completed, none failed and no rollback.
C4_ScenarioB ==
    \A t \in DOMAIN executor :
        ( /\ Returned(t)
          /\ executor[t].demo_mode
          /\ executor[t].execution_plan = BumpPlan )
        => /\ executor[t].returned[1].status = "success"
           /\ executor[t].returned[1].actions_completed = 6
           /\ executor[t].returned[1].actions_failed = 0
           /\ executor[t].returned[1].rollback_performed = FALSE

\* C5: once an executed action of a critical type has ended FAILED, execute_plan
\* processes no later action of the plan, and it returns with rollback_performed
\* true and status partial_success or failed.
C5_CriticalFailureStops ==
    \A t \in DOMAIN executor :
        LET e == executor[t] IN
        \A k \in DOMAIN e.action_results :
            ( /\ k <= Len(e.executed)
              /\ e.action_results[k].status = FAILED
              /\ ActionOfResult(e, k).action_type \in CriticalTypes )
            => /\ k = Len(e.action_results)
               /\ k = Len(e.executed)
               /\ e.i = e.executed[k]
               /\ e.pc \in {"finish", "returned"}
               /\ e.rollback_performed
               /\ e.pc = "returned" =>
                      /\ e.returned # <<>>
                      /\ e.returned[1].rollback_performed
                      /\ e.returned[1].status \in {"partial_success", "failed"}

\* Scenario C: book_appointment failed all its attempts and execute_plan returned.
C5_Witness ==
    \E t \in DOMAIN executor :
        LET e == executor[t] IN
        /\ Returned(t)
        /\ e.action_results # <<>>
        /\ e.action_results[Len(e.action_results)].status = FAILED
        /\ e.action_results[Len(e.action_results)].retry_count = 3
        /\ ActionOfResult(e, Len(e.action_results)).action_type = book_appointment
        /\ e.i < Len(e.execution_plan.actions)

\* C6: an ExecutionResult with rollback_performed true ends with the FAILED result
\* of a critical action, reached after max_retries failed attempts; it is the last
\* entry of action_results and no action after it in plan.actions was attempted.
C6_RollbackImpliesCriticalFailure ==
    \A t \in DOMAIN executor :
        LET e == executor[t] IN
        (Returned(t) /\ e.returned[1].rollback_performed)
        => LET results == e.returned[1].action_results
               n == Len(results)
           IN /\ n >= 1
              /\ n = Len(e.executed)
              /\ results[n].status = FAILED
              /\ ActionOfResult(e, n).action_type \in CriticalTypes
              /\ Len(e.outcomes) = max_retries
              /\ \A j \in DOMAIN e.outcomes : IsError(e.outcomes[j])
              /\ \A k \in 1..n : e.executed[k] <= e.executed[n]
              /\ \A k \in 1..(n - 1) : results[k].status # FAILED
                                          \/ ActionOfResult(e, k).action_type \notin CriticalTypes

\* A rollback was performed after an earlier action had completed, with actions left.
C6_Witness ==
    \E t \in DOMAIN executor :
        LET e == executor[t] IN
        /\ Returned(t)
        /\ e.returned[1].rollback_performed
        /\ e.returned[1].actions_completed >= 1
        /\ e.i < Len(e.execution_plan.actions)

\* C7: when execute_plan returns with rollback_performed true, no ActionResult of
\* the plan is left COMPLETED (the completed prefix has been compensated).
C7_RollbackUndoesCompleted ==
    \A t \in DOMAIN executor :
        (Returned(t) /\ executor[t].returned[1].rollback_performed)
        => \A k \in DOMAIN executor[t].returned[1].action_results :
               executor[t].returned[1].action_results[k].status # COMPLETED

\* C8: the adapter is invoked at most max_retries times for an action; the action
\* is COMPLETED at its first successful attempt, FAILED exactly when all
\* max_retries attempts failed, with the last attempt's error; the retry delay is
\* waited between two attempts only.
C8_BoundedRetries ==
    \A t \in DOMAIN executor :
        LET e == executor[t]
            n == Len(e.outcomes)
        IN /\ n <= max_retries
           /\ \A j \in 1..(n - 1) : IsError(e.outcomes[j])
           /\ e.pc = "attempt" => (e.sleeps = n /\ e.attempt = n /\ n < max_retries)
           /\ e.pc = "sleep" => (e.sleeps = n - 1 /\ n < max_retries /\ IsError(e.outcomes[n]))
           /\ ActionEnded(e) =>
                  LET last == e.action_results[Len(e.action_results)] IN
                  /\ n >= 1
                  /\ e.sleeps = n - 1
                  /\ last.status \in {COMPLETED, FAILED}
                  /\ last.status = COMPLETED <=> e.outcomes[n] = <<"ok">>
                  /\ last.status = FAILED <=>
                         (n = max_retries /\ \A j \in 1..n : IsError(e.outcomes[j]))
                  /\ last.status = FAILED => last.error_message = e.outcomes[n]

\* One action completed at a retry and a later one failed all its attempts.
C8_Witness ==
    \E t \in DOMAIN executor :
        LET e == executor[t] IN
        /\ ActionEnded(e)
        /\ Len(e.action_results) = 2
        /\ e.action_results[1].status = COMPLETED
        /\ e.action_results[1].retry_count = 2
        /\ e.action_results[2].status = FAILED
        /\ e.sleeps = 2

\* C9: status is failed whenever no action completed, partial_success when at
\* least one action completed and at least one failed, success only when no
\* action failed.
C9_StatusOfCounts ==
    \A t \in DOMAIN executor :
        Returned(t) =>
            LET r == executor[t].returned[1] IN
            /\ r.actions_completed = 0 => r.status = "failed"
            /\ (r.actions_completed > 0 /\ r.actions_failed > 0) => r.status = "partial_success"
            /\ r.status = "success" => r.actions_failed = 0

\* C10: execute_plan never raises: a call ends by returning an ExecutionResult with
\* status success, partial_success or failed, and every attempted action has its
\* result in action_results, COMPLETED or FAILED.
C10_NeverRaises ==
    \A t \in DOMAIN executor :
        LET e == executor[t] IN
        /\ e.pc \in {"idle", "loop", "attempt", "sleep", "finish", "returned"}
        /\ e.pc = "returned" =>
               /\ e.returned # <<>>
               /\ e.returned[1].status \in {"success", "partial_success", "failed"}
               /\ Len(e.returned[1].action_results) = Len(e.executed)
               /\ \A k \in DOMAIN e.returned[1].action_results :
                      e.returned[1].action_results[k].status \in {COMPLETED, FAILED}

\* A call returned through the except branch after an action of unknown type had
\* failed with ValueError.
C10_Witness ==
    \E t \in DOMAIN executor :
        LET e == executor[t] IN
        /\ Returned(t)
        /\ e.i <= Len(e.execution_plan.actions)
        /\ ~CurrentAction(e).is_action
        /\ e.action_results # <<>>
        /\ e.action_results[1].status = FAILED
        /\ e.action_results[1].error_message[1] = "ValueError"

\* C11: every ExecutionResult that execute_plan returns, from its normal path or
\* from its except branch, has actions_completed + actions_failed at most the
\* number of actions of the plan.
C11_CountsWithinPlan ==
    \A t \in DOMAIN executor :
        Returned(t) =>
            executor[t].returned[1].actions_completed
                + executor[t].returned[1].actions_failed
                    <= Len(executor[t].execution_plan.actions)

\* The except branch returned after an action had completed, and the counts add
\* up to the length of the plan.
C11_Witness ==
    \E t \in DOMAIN executor :
        LET e == executor[t] IN
        /\ Returned(t)
        /\ e.i <= Len(e.execution_plan.actions)
        /\ ~CurrentAction(e).is_action
        /\ e.returned[1].actions_completed >= 1
        /\ e.returned[1].actions_completed + e.returned[1].actions_failed
               = Len(e.execution_plan.actions)

---------------------------------------------------------------------------
\* Properties of the intake and of the decision path (checked under SpecIntake).

\* The last intake, when there was one.
LastIntake == intake_log.last[1]

\* A candidate of the context scores above the threshold.
HasEligibleCandidate(in) ==
    /\ ~in.context.query_raises
    /\ \E k \in DOMAIN in.context.related_clients :
           score_appointment_candidate(in.context.related_clients[k],
                                       in.appointment_time, "P", in.context) > 70

\* The intake called handle_event with an input on which a step of the decision
\* path raises: a context query, the rule evaluation (no metadata), or the
\* plan construction (a decision without appointment_time).
DecisionPathRaises(in) ==
    /\ in.handled
    /\ in.event_type \in OrchestrableEvents
    /\ \/ in.context.query_raises
       \/ in.event_type = "appointment_cancelled" /\ in.appointment_time = "NoMetadata"
       \/ /\ in.event_type = "appointment_cancelled"
          /\ in.appointment_time = "None"
          /\ HasEligibleCandidate(in)

\* C12: when a step of the decision path raises for an event, handle_event raises
\* nothing to its caller and returns nothing, and no recommendation is produced,
\* counted as processed or stored for the event.
C12_DecisionPathFailSafe ==
    (intake_log.last # <<>> /\ DecisionPathRaises(LastIntake))
    => /\ ~LastIntake.handle_event_raised
       /\ LastIntake.recommendation = <<>>
       /\ last_recommendation = <<>>
       /\ recommendations_store = LastIntake.store_before
       /\ LastIntake.kind # "trigger_event"
              => event_listener.events_processed = LastIntake.before.events_processed

\* The trigger-event route got a cancellation without appointment_time while a
\* candidate was eligible: the plan construction raised after the decision.
C12_Witness ==
    /\ intake_log.last # <<>>
    /\ LastIntake.kind = "trigger_event"
    /\ LastIntake.event_type = "appointment_cancelled"
    /\ LastIntake.appointment_time = "None"
    /\ HasEligibleCandidate(LastIntake)
    /\ LastIntake.recommendation = <<>>

\* C13: for an event whose type is not orchestrable, handle_event returns nothing
\* and leaves decisions_made, rule_decisions and ai_decisions as they were, and
\* the listener intake that carried the event adds exactly one to events_ignored
\* and leaves events_processed as it was.
C13_NotOrchestrableIsIgnored ==
    ( /\ intake_log.last # <<>>
      /\ LastIntake.handled
      /\ LastIntake.event_type \notin OrchestrableEvents )
    => /\ LastIntake.recommendation = <<>>
       /\ ~LastIntake.handle_event_raised
       /\ LastIntake.kind # "trigger_event"
              => /\ event_listener.orchestrator = LastIntake.before.orchestrator
                 /\ event_listener.events_ignored = LastIntake.before.events_ignored + 1
                 /\ event_listener.events_processed = LastIntake.before.events_processed

\* A manual event of a type that is not orchestrable came in after the engine
\* had made a rule decision.
C13_Witness ==
    /\ intake_log.last # <<>>
    /\ LastIntake.kind = "trigger_manual_event"
    /\ LastIntake.event_type = "appointment_no_show"
    /\ LastIntake.before.orchestrator.rule_decisions = 1
    /\ event_listener.events_ignored = LastIntake.before.events_ignored + 1

\* C14: every intake on the listener, handle_webhook or trigger_manual_event, adds
\* exactly one to events_detected and to exactly one of events_processed and
\* events_ignored; so events_processed + events_ignored never exceeds
\* events_detected, and equals it when no intake is in flight.
C14_IntakeCounters ==
    /\ event_listener.events_processed + event_listener.events_ignored
           = event_listener.events_detected
    /\ (intake_log.last # <<>> /\ LastIntake.kind # "trigger_event")
           => /\ event_listener.events_detected = LastIntake.before.events_detected + 1
              /\ event_listener.events_processed + event_listener.events_ignored
                     = LastIntake.before.events_processed
                           + LastIntake.before.events_ignored + 1

\* C15 (Scenario D): a handle_webhook call on a path that is not registered adds
\* exactly one to events_ignored, does not call handle_event, produces no
\* recommendation and leaves events_processed and the engine as they were.
C15_UnregisteredWebhookIgnored ==
    ( /\ intake_log.last # <<>>
      /\ LastIntake.kind = "handle_webhook"
      /\ LastIntake.webhook_path \notin DOMAIN LastIntake.before.webhook_handlers )
    => /\ ~LastIntake.handled
       /\ ~LastIntake.handle_event_raised
       /\ LastIntake.recommendation = <<>>
       /\ event_listener.events_ignored = LastIntake.before.events_ignored + 1
       /\ event_listener.events_processed = LastIntake.before.events_processed
       /\ event_listener.events_detected = LastIntake.before.events_detected + 1
       /\ event_listener.orchestrator = LastIntake.before.orchestrator
       /\ recommendations_store = LastIntake.store_before

\* A started listener, with its webhook path registered, got a webhook on another path.
C15_Witness ==
    /\ intake_log.last # <<>>
    /\ LastIntake.kind = "handle_webhook"
    /\ LastIntake.webhook_path = "/webhooks/unknown"
    /\ "/webhooks/housing-update" \in DOMAIN LastIntake.before.webhook_handlers
    /\ event_listener.events_ignored = LastIntake.before.events_ignored + 1

\* C16: every decision adds one to decisions_made and to exactly one of
\* rule_decisions and ai_decisions, so after any sequence of handle_event calls
\* on an engine, including calls that fail after the decision was reached,
\* decisions_made = rule_decisions + ai_decisions.
C16_DecisionCounters ==
    event_listener.orchestrator.decisions_made
        = event_listener.orchestrator.rule_decisions
              + event_listener.orchestrator.ai_decisions

\* The scores of the candidates of an intake's context.
CandidateScores(in) ==
    {score_appointment_candidate(in.context.related_clients[k], in.appointment_time,
                                 "P", in.context) :
         k \in DOMAIN in.context.related_clients}

\* C17 (Scenario A): whenever the appointment_cancelled rule selects a candidate,
\* the plan of the recommendation has exactly the 6 actions cancel_appointment,
\* book_appointment, update_transport, send_sms, notify_provider, update_case in
\* this order, book_appointment depends on cancel_appointment and nothing else
\* depends on anything, and confidence_score is the score of the selected
\* candidate, the highest one (0.92 for B with urgency 8 and documents complete,
\* chosen over A with urgency 3 and no documents).
C17_ScenarioA ==
    ( /\ intake_log.last # <<>>
      /\ LastIntake.handled
      /\ LastIntake.event_type = "appointment_cancelled"
      /\ HasEligibleCandidate(LastIntake)
      /\ ~DecisionPathRaises(LastIntake) )
    => /\ LastIntake.recommendation # <<>>
       /\ LET recommendation == LastIntake.recommendation[1]
              actions == recommendation.execution_plan.actions
          IN /\ [k \in DOMAIN actions |-> actions[k].action_type]
                    = << cancel_appointment, book_appointment, update_transport,
                         send_sms, notify_provider, update_case >>
             /\ actions[2].depends_on = << cancel_appointment >>
             /\ \A k \in DOMAIN actions : k # 2 => actions[k].depends_on = <<>>
             /\ recommendation.confidence_score \in CandidateScores(LastIntake)
             /\ \A score \in CandidateScores(LastIntake) :
                    score <= recommendation.confidence_score
             /\ LastIntake.context.related_clients = <<CandidateA, CandidateB>>
                    => recommendation.confidence_score = 92

\* Scenario A: a cancellation came in with the candidates A and B, and a
\* recommendation was produced.
C17_Witness ==
    /\ intake_log.last # <<>>
    /\ LastIntake.event_type = "appointment_cancelled"
    /\ LastIntake.context.related_clients = <<CandidateA, CandidateB>>
    /\ LastIntake.recommendation # <<>>
    /\ LastIntake.recommendation[1].confidence_score = 92

\* C19: after stop() and until the next start(), no source forwards an event
\* to the engine: a handle_webhook call does not call handle_event, even on a
\* path that start() registered, and no scheduled job that start() created is
\* still running.
C19_StopDeactivates ==
    /\ ~intake_log.active => event_listener.scheduled_jobs = 0
    /\ ( /\ intake_log.last # <<>>
         /\ LastIntake.kind = "handle_webhook"
         /\ ~LastIntake.active )
           => ~LastIntake.handled

---------------------------------------------------------------------------
\* More properties of the Execution Service (checked under SpecExec).

\* C18: the aggregate counters change once per execute_plan call: when the n
\* calls made on an instance have all returned, normally or through the except
\* branch, executions_count = n, a result with status success or failed has been
\* counted in successful_executions or failed_executions, and
\* successful_executions + failed_executions <= executions_count.
C18_CountersOncePerCall ==
    \A t \in DOMAIN executor :
        LET e == executor[t] IN
        e.pc \in {"idle", "returned"}
        => /\ e.executions_count = e.calls
           /\ e.successful_executions + e.failed_executions <= e.executions_count
           /\ (Returned(t) /\ e.returned[1].status = "success")
                  => e.successful_executions >= 1
           /\ (Returned(t) /\ e.returned[1].status = "failed")
                  => e.failed_executions >= 1

\* The actions before position p that have a COMPLETED result hold every action
\* type that the action at position p depends on.
DependenciesCompleted(e, p) ==
    \A d \in DOMAIN e.execution_plan.actions[p].depends_on :
        \E k \in DOMAIN e.action_results :
            /\ e.executed[k] < p
            /\ e.action_results[k].status = COMPLETED
            /\ ActionOfResult(e, k).action_type = e.execution_plan.actions[p].depends_on[d]

\* C20: in the forward pass of execute_plan an action is executed if and only if
\* every action type of its depends_on has a COMPLETED result in this execution:
\* book_appointment after a completed cancel_appointment is executed, and an
\* action with an unmet dependency is not.
C20_ExecutedIffDependenciesCompleted ==
    \A t \in DOMAIN executor :
        LET e == executor[t] IN
        \A p \in DOMAIN e.execution_plan.actions :
            ( /\ e.execution_plan.actions[p].is_action
              /\ p < e.i \/ p \in Range(e.executed) )
            => (p \in Range(e.executed) <=> DependenciesCompleted(e, p))

---------------------------------------------------------------------------
\* Properties of the planner (checked under SpecIntake).

\* The plans of the recommendations that handle_event has returned or the
\* trigger-event route has stored.
ProducedPlans ==
    {last_recommendation[k].execution_plan : k \in DOMAIN last_recommendation}
    \cup {recommendations_store[id].execution_plan : id \in DOMAIN recommendations_store}
    \cup (IF intake_log.last = <<>> THEN {}
          ELSE {LastIntake.recommendation[k].execution_plan :
                    k \in DOMAIN LastIntake.recommendation})

\* Decisions of a type the planner builds actions for, and of one it does not.
PlannerDecisions ==
    {[DemoDecision EXCEPT !.decision_type = decision_type] :
         decision_type \in {"bump_appointment", "match_housing"}}

\* The sum of the costs of the actions from position k on, 2 seconds each.
RECURSIVE CostSum(_, _)
CostSum(actions, k) == IF k > Len(actions) THEN 0 ELSE 2 + CostSum(actions, k + 1)

PlannerInvariant(plan) ==
    /\ \A p \in DOMAIN plan.actions :
           \A d \in DOMAIN plan.actions[p].depends_on :
               \E q \in 1..(p - 1) :
                   plan.actions[q].action_type = plan.actions[p].depends_on[d]
    /\ plan.affected_systems = {plan.actions[p].target_system : p \in DOMAIN plan.actions}
    /\ plan.estimated_duration_seconds = CostSum(plan.actions, 1)

\* C21: in every plan that _create_execution_plan returns, each entry of an
\* action's depends_on is the action_type of an action at a strictly earlier
\* position, affected_systems is the set of the target_system values of the
\* actions, and estimated_duration_seconds is the sum of a cost per action.
C21_PlannerInvariant ==
    /\ \A plan \in ProducedPlans : PlannerInvariant(plan)
    /\ \A decision \in PlannerDecisions :
           PlannerInvariant(create_execution_plan(decision, clock))

\* A recommendation was produced whose plan holds a dependency and 5 systems.
C21_Witness ==
    /\ intake_log.last # <<>>
    /\ LastIntake.recommendation # <<>>
    /\ LastIntake.recommendation[1].execution_plan \in ProducedPlans
    /\ LastIntake.recommendation[1].execution_plan.actions[2].depends_on # <<>>
    /\ Cardinality(LastIntake.recommendation[1].execution_plan.affected_systems) = 5
    /\ LastIntake.recommendation[1].execution_plan.estimated_duration_seconds = 12

---------------------------------------------------------------------------
\* Properties of the forward pass of execute_plan (checked under SpecExec).

\* The action type that an action_id was formatted from.
TypeOfActionId(action_id) == SubSeq(action_id, 1, Len(action_id) - 1)

\* An action has been handed to _execute_action and has no result yet.
ActionRunning(e) == e.pc \in {"attempt", "sleep"}

\* C22: within one execute_plan call the actions run one after the other in plan
\* order: at most one action is running, an action starts only after the action
\* attempted before it has its COMPLETED or FAILED result, action_results lists
\* the attempted actions in the order of plan.actions, and after a critical
\* failure every COMPLETED result stands before the failed action.
C22_SequentialInPlanOrder ==
    /\ [](\A t \in DOMAIN executor :
              LET e == executor[t]
                  n == Len(e.action_results)
              IN /\ Len(e.executed) = n + (IF ActionRunning(e) THEN 1 ELSE 0)
                 /\ \A j, k \in DOMAIN e.executed : j < k => e.executed[j] < e.executed[k]
                 /\ \A k \in DOMAIN e.action_results :
                        /\ e.action_results[k].status \in {COMPLETED, FAILED}
                        /\ TypeOfActionId(e.action_results[k].action_id)
                               = ActionOfResult(e, k).action_type
                 /\ e.rollback_performed =>
                        /\ e.action_results[n].status = FAILED
                        /\ \A k \in DOMAIN e.action_results :
                               e.action_results[k].status = COMPLETED
                                   => k < n /\ e.executed[k] < e.executed[n])
    /\ [][\A t \in DOMAIN executor :
              ( /\ executor'[t].calls = executor[t].calls
                /\ Len(executor'[t].executed) > Len(executor[t].executed) )
              => /\ ~ActionRunning(executor[t])
                 /\ Len(executor[t].action_results) = Len(executor[t].executed)
                 /\ executor'[t].executed
                        = Append(executor[t].executed, executor[t].i)
                 /\ executor'[t].action_results = executor[t].action_results]_vars

\* The planner's plan ran in live mode: book_appointment was skipped, four actions
\* completed and update_case failed all its attempts.
C22_Witness ==
    \E t \in DOMAIN executor :
        LET e == executor[t] IN
        /\ e.rollback_performed
        /\ e.executed = <<1, 3, 4, 5, 6>>
        /\ Len(e.action_results) = 5
        /\ e.action_results[4].status = COMPLETED
        /\ e.action_results[5].status = FAILED

\* C23: when an action whose type is not critical (update_transport, send_sms,
\* notify_provider or an unknown type) has failed all its attempts, one FAILED
\* ActionResult is recorded for it, the count of failed actions grows by one,
\* rollback_performed stays false, and the loop goes on with the next action.
C23_NonCriticalFailureContinues ==
    /\ [](\A t \in DOMAIN executor :
              executor[t].failed =
                  Cardinality({k \in DOMAIN executor[t].action_results :
                                   executor[t].action_results[k].status = FAILED}))
    /\ [][\A t \in DOMAIN executor :
              LET e == executor[t]
                  n == Len(e.action_results)
              IN ( /\ executor'[t].calls = e.calls
                   /\ Len(executor'[t].action_results) = n + 1
                   /\ executor'[t].action_results[n + 1].status = FAILED
                   /\ CurrentAction(e).action_type \notin CriticalTypes )
                 => /\ SubSeq(executor'[t].action_results, 1, n) = e.action_results
                    /\ executor'[t].action_results[n + 1].retry_count = max_retries
                    /\ Len(e.outcomes) = max_retries - 1
                    /\ executor'[t].failed = e.failed + 1
                    /\ executor'[t].completed = e.completed
                    /\ ~executor'[t].rollback_performed
                    /\ executor'[t].pc = "loop"
                    /\ executor'[t].i = e.i + 1]_vars

\* An action of unknown type failed all its attempts and the next action of the
\* plan was executed and completed.
C23_Witness ==
    \E t \in DOMAIN executor :
        LET e == executor[t] IN
        /\ Len(e.action_results) = 2
        /\ e.executed = <<1, 2>>
        /\ e.action_results[1].status = FAILED
        /\ e.execution_plan.actions[1].action_type = send_notification
        /\ e.action_results[2].status = COMPLETED
        /\ ~e.rollback_performed
        /\ e.failed = 1

---------------------------------------------------------------------------
\* Properties of the candidate scoring (checked under SpecIntake).

Max(a, b) == IF a > b THEN a ELSE b

\* clamp(0.4 * min(urgency / 10, 1) + 0.2 * docs_ready + 0.2 * transport_compatible
\*       + 0.2 * no_conflict, 0, 1), times 100.
ClampedScore(client, appointment_time, provider_id, context) ==
    Max(0, Min(100,
        2 * Min(client.urgency_score, 20)
        + (IF client.documents_complete THEN 20 ELSE 0)
        + (IF is_transport_compatible(client, provider_id, context) THEN 20 ELSE 0)
        + (IF ~has_conflicts(client, appointment_time, context) THEN 20 ELSE 0)))

\* The last intake ran the appointment_cancelled rule over its candidates.
RuleScored(in) ==
    /\ in.handled
    /\ in.event_type = "appointment_cancelled"
    /\ ~in.context.query_raises
    /\ in.appointment_time # "NoMetadata"

\* C24: the score of every candidate, with an urgency above 10 or below 0 too,
\* is clamp(0.4 * min(urgency / 10, 1) + 0.2 * docs_ready
\* + 0.2 * transport_compatible + 0.2 * no_conflict, 0, 1): the urgency term
\* adds at most 0.4 and the score is never below 0.
C24_ScoreClamped ==
    (intake_log.last # <<>> /\ RuleScored(LastIntake))
    => \A k \in DOMAIN LastIntake.context.related_clients :
           LET client == LastIntake.context.related_clients[k]
               score == score_appointment_candidate(client, LastIntake.appointment_time,
                                                    "P", LastIntake.context)
           IN /\ score = ClampedScore(client, LastIntake.appointment_time, "P",
                                      LastIntake.context)
              /\ score >= 0

\* The score of candidate k of an intake's context.
ScoreOf(in, k) ==
    score_appointment_candidate(in.context.related_clients[k], in.appointment_time,
                                "P", in.context)

\* The rule returned a decision in the last intake on the listener: _make_decision
\* counted a rule decision.
RuleDecided ==
    event_listener.orchestrator.rule_decisions
        = LastIntake.before.orchestrator.rule_decisions + 1

\* C25: for an appointment_cancelled event the rule returns a decision if and only
\* if a candidate scores strictly more than 0.7; the candidate selected is the
\* first in list order among those of the highest score, the confidence is that
\* score, and a candidate that scores 0.7 or less is never selected.
C25_SelectsFirstMaximum ==
    (intake_log.last # <<>> /\ RuleScored(LastIntake))
    => LET in == LastIntake
           clients == in.context.related_clients
       IN /\ in.kind # "trigger_event"
                 => (RuleDecided <=> \E k \in DOMAIN clients : ScoreOf(in, k) > 70)
          /\ in.appointment_time = "09:00"
                 => (in.recommendation # <<>>
                         <=> \E k \in DOMAIN clients : ScoreOf(in, k) > 70)
          /\ in.recommendation # <<>>
                 => \E k \in DOMAIN clients :
                        /\ clients[k].id = in.recommendation[1].summary
                        /\ ScoreOf(in, k) = in.recommendation[1].confidence_score
                        /\ ScoreOf(in, k) > 70
                        /\ \A j \in DOMAIN clients : ScoreOf(in, j) <= ScoreOf(in, k)
                        /\ \A j \in 1..(k - 1) : ScoreOf(in, j) < ScoreOf(in, k)

\* The candidates were F, scoring 0.7, then C and G, scoring 0.84 both, and C
\* was selected.
C25_Witness ==
    /\ intake_log.last # <<>>
    /\ RuleScored(LastIntake)
    /\ LastIntake.context.related_clients = <<CandidateF, CandidateC, CandidateG>>
    /\ LastIntake.recommendation # <<>>
    /\ LastIntake.recommendation[1].summary = "C"
    /\ LastIntake.recommendation[1].confidence_score = 84

---------------------------------------------------------------------------
\* Properties of the result of execute_plan (checked under SpecExec).

\* C26: an ExecutionResult with status success means that the whole plan ran:
\* every action of plan.actions has exactly one ActionResult, COMPLETED, so
\* actions_completed is the number of actions and no action was skipped.
C26_SuccessMeansWholePlan ==
    \A t \in DOMAIN executor :
        LET e == executor[t] IN
        (Returned(t) /\ e.returned[1].status = "success")
        => /\ e.returned[1].actions_completed = Len(e.execution_plan.actions)
           /\ e.executed = [p \in DOMAIN e.execution_plan.actions |-> p]
           /\ Len(e.returned[1].action_results) = Len(e.execution_plan.actions)
           /\ \A k \in DOMAIN e.returned[1].action_results :
                  e.returned[1].action_results[k].status = COMPLETED

---------------------------------------------------------------------------
\* Properties of the background execution (checked under SpecLive).

\* The ids the trigger-event route gives to the recommendations it stores.
RecommendationIds == {FormatId(<<"rec">>, now) : now \in 1..MaxRecommendations}

FinalStatuses == {"completed", "partial_success", "failed"}

\* C27: with adapter calls that return and background tasks that are scheduled,
\* a recommendation that approve has set to executing eventually gets the
\* status completed, partial_success or failed, the one of the ExecutionResult
\* (success gives completed, failed gives failed, anything else
\* partial_success); it does not stay executing forever.
C27_ApprovedEventuallyFinal ==
    /\ \A id \in RecommendationIds :
           (id \in DOMAIN recommendations_store
                /\ recommendations_store[id].status = "executing")
           ~> (id \in DOMAIN recommendations_store
                   /\ recommendations_store[id].status \in FinalStatuses)
    /\ [][\A t \in DOMAIN background_tasks :
              (background_tasks[t].pc = "running" /\ background_tasks'[t].pc = "done")
              => /\ executor'[t].returned # <<>>
                 /\ recommendations_store'[background_tasks[t].recommendation_id].status
                        = (IF executor'[t].returned[1].status = "success" THEN "completed"
                           ELSE IF executor'[t].returned[1].status = "failed" THEN "failed"
                           ELSE "partial_success")]_vars

\* The execution of an approved recommendation has returned and its status is
\* completed, while a second approval of it has its task still to run.
C27_Witness ==
    \E t \in DOMAIN background_tasks :
        /\ background_tasks[t].pc = "done"
        /\ recommendations_store[background_tasks[t].recommendation_id].status = "completed"
        /\ Len(background_tasks) > t

---------------------------------------------------------------------------
\* Properties of one execute_plan call (checked under SpecCall).

\* C28: execute_plan terminates when every adapter call returns or raises: it
\* makes one forward pass over the plan, with at most len(plan.actions) *
\* max_retries adapter invocations and at most len(plan.actions) *
\* (max_retries - 1) retry delays, and returns an ExecutionResult with status
\* success, partial_success or failed.
C28_ExecutePlanTerminates ==
    /\ (executor[1].pc # "idle") ~> (executor[1].pc = "returned")
    /\ [](LET e == executor[1]
              n == Len(e.execution_plan.actions)
          IN /\ e.invocations <= n * max_retries
             /\ e.waits <= n * (max_retries - 1)
             /\ e.pc = "returned" =>
                    /\ e.returned # <<>>
                    /\ e.returned[1].status \in {"success", "partial_success", "failed"})
    /\ [][executor[1].pc # "idle" => executor'[1].i >= executor[1].i]_vars

\* A call returned after every action of its plan had failed all its attempts.
C28_Witness ==
    LET e == executor[1] IN
    /\ Returned(1)
    /\ Len(e.execution_plan.actions) = 2
    /\ e.invocations = 2 * max_retries
    /\ e.waits = 2 * (max_retries - 1)

---------------------------------------------------------------------------
\* Properties of the listener's sources (checked under SpecIntake).

\* C29: a webhook on the configured, enabled path /webhooks/housing-update is
\* handed to the engine as one event of the configured type housing_available
\* whenever handle_webhook is called on a listener, also on one on which start()
\* has not been called (as the one the webhook route builds for a request).
C29_ConfiguredWebhookForwarded ==
    ( /\ intake_log.last # <<>>
      /\ LastIntake.kind = "handle_webhook"
      /\ \E k \in DOMAIN event_configs :
             /\ event_configs[k].enabled
             /\ event_configs[k].source = "webhook"
             /\ event_configs[k].webhook_path = LastIntake.webhook_path )
    => /\ LastIntake.handled
       /\ LastIntake.event_type = "housing_available"
       /\ event_listener.events_detected = LastIntake.before.events_detected + 1

\* The enabled configurations of source SCHEDULED.
ScheduledSources ==
    {k \in DOMAIN event_configs :
         event_configs[k].enabled /\ event_configs[k].source = "scheduled"}

\* C30: start() is idempotent, in demo mode or not: a start() call on a listener
\* that was started before leaves it as it was, with the same webhook paths
\* registered, and one scheduled job runs for each enabled scheduled source, never
\* a second one.
C30_StartIdempotent ==
    /\ [](event_listener.scheduled_jobs <= Cardinality(ScheduledSources))
    /\ [][( /\ intake_log'.intakes = intake_log.intakes
            /\ intake_log'.active
            /\ event_listener.webhook_handlers # <<>> )
          => event_listener' = event_listener]_vars

====
